---- MODULE Spec2Model ----
(***************************************************************************)
(* Model of the Reno Pricing App (src/app/main.py) and of its price        *)
(* refresh job (src/auto_refresh.py).                                      *)
(*                                                                         *)
(* Numbers: Python floats are modelled as exact rationals [n, d] in lowest *)
(* terms (d > 0).  round2 and round() are round-half-to-even on the exact  *)
(* value.  Strings that the code inspects character by character (job      *)
(* types) are sequences of one-character strings; strings that are only    *)
(* compared (region names, dictionary keys) are TLA+ strings.              *)
(***************************************************************************)
EXTENDS Integers, Sequences, FiniteSets, TLC

VARIABLES
    PRICE_CFG,        \* main.py:51, rebound by /refresh
    DEFAULT_REGION,   \* main.py:52
    HST_RATE,         \* main.py:53
    RATE_LIMIT_RPS,   \* main.py:24
    body,             \* the EstimateRequest being served (its items)
    est_locals,       \* per line, the locals of compute_estimate in /estimate
    est_out,          \* the response of POST /estimate
    wo_out,           \* the response of POST /workorder/html
    prices_file,      \* the file at DATA_PATH
    baseline,         \* history: prices_file before the refresh job first ran on it
    refresh_runs,     \* history: runs of refresh_prices since then
    startup_cfg,      \* history: what load_prices returned at import
    load_failed,      \* history: whether the load that made PRICE_CFG failed
    run,              \* a run of compute_estimate in a worker thread
    clock,            \* time.time(), in ticks of half a second
    calls,            \* per thread, its call of rate_limit_ok
    last_req_times,   \* main.py:56, _last_req_times
    admitted          \* history: how many admitted calls recorded each timestamp

globals == <<PRICE_CFG, DEFAULT_REGION, HST_RATE, RATE_LIMIT_RPS>>
est_group == <<body, est_locals, est_out, wo_out>>
file_group == <<prices_file, baseline, refresh_runs>>
load_group == <<startup_cfg, load_failed>>
rate_group == <<clock, calls, last_req_times, admitted>>
vars == <<globals, est_group, file_group, load_group, run, rate_group>>


\* ------------------------------------------------------------ bounds
MaxWords == 2
MaxMods == 2
MaxLines == 2
MaxRefreshRuns == 2
MaxClock == 5
NThreads == 2

\* ------------------------------------------------------------ numbers
RECURSIVE GCD(_, _)
GCD(a, b) == IF b = 0 THEN a ELSE GCD(b, a % b)

Abs(x) == IF x < 0 THEN -x ELSE x

Norm(n, d) ==
    LET g == GCD(Abs(n), d)
    IN  IF n = 0 THEN [n |-> 0, d |-> 1] ELSE [n |-> n \div g, d |-> d \div g]

Q(n) == [n |-> n, d |-> 1]
Dec2(h) == Norm(h, 100)
Dec3(m) == Norm(m, 1000)

Mul(a, b) ==
    IF a.n = 0 \/ b.n = 0 THEN [n |-> 0, d |-> 1]
    ELSE LET g1 == GCD(Abs(a.n), b.d)
             g2 == GCD(Abs(b.n), a.d)
         IN  [n |-> (a.n \div g1) * (b.n \div g2), d |-> (a.d \div g2) * (b.d \div g1)]

Add(a, b) ==
    LET g == GCD(a.d, b.d)
    IN  Norm(a.n * (b.d \div g) + b.n * (a.d \div g), (a.d \div g) * b.d)

Sub(a, b) == Add(a, [n |-> -b.n, d |-> b.d])

Less(a, b) == a.n * b.d < b.n * a.d

\* nearest integer to n/d (d > 0), ties to the even integer
RoundHalfEven(n, d) ==
    LET q == n \div d
        r == n % d
    IN  IF 2 * r < d THEN q
        ELSE IF 2 * r > d THEN q + 1
        ELSE IF q % 2 = 0 THEN q ELSE q + 1

\* Python's round(x) for a float x: an int
PyRound(x) == RoundHalfEven(x.n, x.d)

\* Python's round(x, 2): a float with two decimals
PyRound2(x) ==
    LET q == x.n \div x.d
        r == x.n % x.d
    IN  Norm(q * 100 + RoundHalfEven(r * 100, x.d), 100)

round2(x) == PyRound2(x)

Max(a, b) == IF Less(a, b) THEN b ELSE a

RECURSIVE SumSeq(_)
SumSeq(s) == IF s = <<>> THEN Q(0) ELSE Add(SumSeq(SubSeq(s, 1, Len(s) - 1)), s[Len(s)])

RECURSIVE SumInt(_)
SumInt(s) == IF s = <<>> THEN 0 ELSE SumInt(SubSeq(s, 1, Len(s) - 1)) + s[Len(s)]

\* ------------------------------------------------------------ strings
UpperAlphabet == <<"A","B","C","D","E","F","G","H","I","J","K","L","M",
                   "N","O","P","Q","R","S","T","U","V","W","X","Y","Z">>
LowerAlphabet == <<"a","b","c","d","e","f","g","h","i","j","k","l","m",
                   "n","o","p","q","r","s","t","u","v","w","x","y","z">>

LowerChar(c) ==
    IF \E i \in 1..26 : UpperAlphabet[i] = c
    THEN LowerAlphabet[CHOOSE i \in 1..26 : UpperAlphabet[i] = c]
    ELSE c

\* str.lower()
Lower(s) == [i \in 1..Len(s) |-> LowerChar(s[i])]

\* sub in s
Contains(s, sub) ==
    \E i \in 0..(Len(s) - Len(sub)) : SubSeq(s, i + 1, i + Len(sub)) = sub

S_plumb == <<"p","l","u","m","b">>
S_elect == <<"e","l","e","c","t">>
S_paint == <<"p","a","i","n","t">>
S_tile == <<"t","i","l","e">>
S_drywall == <<"d","r","y","w","a","l","l">>
S_carp == <<"c","a","r","p">>
S_handyman == <<"h","a","n","d","y","m","a","n">>
S_default == <<"d","e","f","a","u","l","t">>
S_kitchen == <<"k","i","t","c","h","e","n">>
S_ing == <<"i","n","g">>
S_car == <<"c","a","r">>
S_Paint == <<"P","a","i","n","t">>
S_TILE == <<"T","I","L","E">>

Words == {S_plumb, S_elect, S_paint, S_tile, S_drywall, S_carp, S_handyman,
          S_default, S_kitchen, S_ing, S_car, S_Paint, S_TILE}

RECURSIVE Phrases(_)
Phrases(k) ==
    IF k = 0 THEN {<<>>}
    ELSE LET P == Phrases(k - 1) IN P \cup {p \o w : p \in P, w \in Words}

JobTypes == Phrases(MaxWords) \ {<<>>}

\* ------------------------------------------------------------ dictionaries
\* A Python dict that the code iterates is a sequence of <<key, value>> pairs
\* in insertion order.
Keys(items) == {items[i][1] : i \in 1..Len(items)}
Get(items, k) == items[CHOOSE i \in 1..Len(items) : items[i][1] = k][2]

\* values of base_rates: a RateSchema dict, a bare number, or None (absent)
Dict(items) == [kind |-> "dict", items |-> items, value |-> Q(0)]
Float(v) == [kind |-> "float", items |-> <<>>, value |-> v]
None == [kind |-> "none", items |-> <<>>, value |-> Q(0)]

Schema(key, price, pct) == Dict(<< <<key, price>>, <<"materials_pct", pct>> >>)

\* a complexity-modifier value that is not an int or float
NonNumeric == [n |-> 0, d |-> 0]
IsNumeric(v) == v.d # 0

\* ------------------------------------------------------------ catalogs
\* load_prices' except branch
Fallback ==
    [version |-> "fallback",
     last_refreshed |-> "",
     default_region |-> "Durham",
     hst_rate |-> Dec2(13),
     region_multipliers |-> ("Durham" :> Q(1)),
     base_rates |-> (S_default :> Float(Q(100)))]

\* contents prices.json can have: two releases of the price list
FileA ==
    [version |-> "2025.1",
     last_refreshed |-> "",
     default_region |-> "Durham",
     hst_rate |-> Dec2(13),
     region_multipliers |-> ("Durham" :> Q(1) @@ "York" :> Dec3(1125)),
     base_rates |-> ((S_paint \o S_ing) :> Schema("per_sqft", Dec2(375), Dec2(20))
                     @@ S_kitchen :> Dict(<< <<"materials_pct", Dec2(35)>>,
                                             <<"per_unit", Dec2(1250)>> >>)
                     @@ S_tile :> Schema("per_sqft", Q(11), Dec2(40)))]

FileB ==
    [version |-> "2025.2",
     last_refreshed |-> "",
     default_region |-> "York",
     hst_rate |-> Dec2(15),
     region_multipliers |-> ("Durham" :> Q(1) @@ "York" :> Dec2(120)),
     base_rates |-> ((S_paint \o S_ing) :> Schema("per_sqft", Q(4), Dec2(25))
                     @@ S_plumb :> Schema("per_fixture", Q(300), Dec2(45)))]

Releases == {FileA, FileB}

\* the file at DATA_PATH: present with a content, or missing / unparsable
Present(c) == [exists |-> TRUE, data |-> c]
Missing == [exists |-> FALSE, data |-> Fallback]

load_prices(f) == IF f.exists THEN f.data ELSE Fallback

\* ------------------------------------------------------------ compute_estimate
get_region_multiplier(cfg, default_region, region) ==
    LET r == IF region = "" THEN default_region ELSE region
    IN  IF r \in DOMAIN cfg.region_multipliers THEN cfg.region_multipliers[r] ELSE Q(1)

RECURSIVE FirstCostKey(_, _)
FirstCostKey(items, i) ==
    IF i > Len(items) THEN "per_sqft"
    ELSE IF items[i][1] # "materials_pct" THEN items[i][1]
    ELSE FirstCostKey(items, i + 1)

choose_cost_key(base) == FirstCostKey(base.items, 1)

BaseLookup(cfg, job_type) ==
    IF job_type \in DOMAIN cfg.base_rates THEN cfg.base_rates[job_type] ELSE None

\* "not base"
Falsy(base) ==
    \/ base.kind = "none"
    \/ base.kind = "dict" /\ base.items = <<>>
    \/ base.kind = "float" /\ base.value.n = 0

\* faulty variant: "carp" tested before "paint"
SmartDefault_CarpFirst(j) ==
    IF Contains(j, S_plumb) THEN Schema("per_fixture", Q(275), Dec2(40))
    ELSE IF Contains(j, S_elect) THEN Schema("per_point", Q(195), Dec2(35))
    ELSE IF Contains(j, S_carp) THEN Schema("per_sqft", Q(8), Dec2(30))
    ELSE IF Contains(j, S_paint) THEN Schema("per_sqft", Dec2(350), Dec2(20))
    ELSE IF Contains(j, S_tile) THEN Schema("per_sqft", Q(10), Dec2(40))
    ELSE IF Contains(j, S_drywall) THEN Schema("per_sqft", Q(6), Dec2(30))
    ELSE IF Contains(j, S_handyman) THEN Schema("per_point", Q(95), Dec2(20))
    ELSE Schema("per_sqft", Q(10), Dec2(35))

SmartDefault(j) ==
    IF Contains(j, S_plumb) THEN Schema("per_fixture", Q(275), Dec2(40))
    ELSE IF Contains(j, S_elect) THEN Schema("per_point", Q(195), Dec2(35))
    ELSE IF Contains(j, S_paint) THEN Schema("per_sqft", Dec2(350), Dec2(20))
    ELSE IF Contains(j, S_tile) THEN Schema("per_sqft", Q(10), Dec2(40))
    ELSE IF Contains(j, S_drywall) THEN Schema("per_sqft", Q(6), Dec2(30))
    ELSE IF Contains(j, S_carp) THEN Schema("per_sqft", Q(8), Dec2(30))
    ELSE IF Contains(j, S_handyman) THEN Schema("per_point", Q(95), Dec2(20))
    ELSE Schema("per_sqft", Q(10), Dec2(35))

ResolveBase(cfg, job_type) ==
    LET base == BaseLookup(cfg, job_type)
    IN  IF Falsy(base) THEN SmartDefault(Lower(job_type)) ELSE base

\* faulty variant: a missing input priced as one unit
Quantity_DefaultOne(inputs, key) == IF key \in DOMAIN inputs THEN inputs[key] ELSE Q(1)

Quantity(inputs, key) == IF key \in DOMAIN inputs THEN inputs[key] ELSE Q(0)

Modifier(name, factor) == [name |-> name, factor |-> factor]

\* faulty variant: the subtotal rounded to cents after every modifier
RECURSIVE ApplyModifiers_RoundEachStep(_, _, _)
ApplyModifiers_RoundEachStep(acc, mods, i) ==
    IF i > Len(mods) THEN acc
    ELSE IF IsNumeric(mods[i][2])
    THEN ApplyModifiers_RoundEachStep(
             [subtotal |-> round2(Mul(acc.subtotal, mods[i][2])),
              modifiers |-> Append(acc.modifiers, Modifier(mods[i][1], round2(mods[i][2])))],
             mods, i + 1)
    ELSE ApplyModifiers_RoundEachStep(acc, mods, i + 1)

\* the loop over complexity_modifiers.items(): acc = [subtotal, modifiers]
RECURSIVE ApplyModifiers(_, _, _)
ApplyModifiers(acc, mods, i) ==
    IF i > Len(mods) THEN acc
    ELSE IF IsNumeric(mods[i][2])
    THEN ApplyModifiers(
             [subtotal |-> Mul(acc.subtotal, mods[i][2]),
              modifiers |-> Append(acc.modifiers, Modifier(mods[i][1], round2(mods[i][2])))],
             mods, i + 1)
    ELSE ApplyModifiers(acc, mods, i + 1)

Raise(e) == [status |-> e]

\* faulty variant: no one-day minimum
BaseDays_NoMinimum(qty) == IF qty.n > 0 THEN Mul(qty, [n |-> 1, d |-> 300]) ELSE Q(1)

BaseDays(qty) == IF qty.n > 0 THEN Max(Q(1), Mul(qty, [n |-> 1, d |-> 300])) ELSE Q(1)

\* compute_estimate from line 151 on, given what its reads of the globals
\* returned: base (line 139), region_mult (line 157), default_region, hst
EstimateFrom(line, base, region_mult, default_region, hst) ==
    IF base.kind # "dict" THEN Raise("AttributeError")
    ELSE LET key == choose_cost_key(base)
         IN  IF key \notin Keys(base.items) \/ "materials_pct" \notin Keys(base.items)
             THEN Raise("KeyError")
             ELSE LET qty == Quantity(line.inputs, key)
                      pct == Get(base.items, "materials_pct")
                      base_cost == Mul(qty, Get(base.items, key))
                      labor == Mul(base_cost, Sub(Q(1), pct))
                      materials == Mul(base_cost, pct)
                      m == ApplyModifiers(
                               [subtotal |-> Mul(Add(labor, materials), region_mult),
                                modifiers |-> <<Modifier("region_multiplier", round2(region_mult))>>],
                               line.complexity_modifiers, 1)
                      tax == IF line.include_tax THEN Mul(m.subtotal, hst) ELSE Q(0)
                      total == Add(m.subtotal, tax)
                      base_days == BaseDays(qty)
                  IN  [status |-> "ok",
                       job_type |-> line.job_type,
                       region |-> IF line.region = "" THEN default_region ELSE line.region,
                       labor |-> round2(labor),
                       materials |-> round2(materials),
                       modifiers |-> m.modifiers,
                       subtotal |-> round2(m.subtotal),
                       tax |-> round2(tax),
                       total |-> round2(total),
                       est_days_low |-> PyRound(base_days),
                       est_days_high |-> PyRound(Mul(base_days, Dec2(150)))]

\* a whole run of compute_estimate with no reload in between
compute_estimate(cfg, default_region, hst, line) ==
    EstimateFrom(line,
                 ResolveBase(cfg, line.job_type),
                 get_region_multiplier(cfg, default_region, line.region),
                 default_region, hst)

Ok(e) == e.status = "ok"

\* ------------------------------------------------------------ handlers
\* faulty variant: the grand total derived from the two other totals
BatchOut_TotalFromParts(results) ==
    IF \E i \in 1..Len(results) : ~Ok(results[i]) THEN Raise("InternalServerError")
    ELSE LET sub == round2(SumSeq([i \in 1..Len(results) |-> results[i].subtotal]))
             tax == round2(SumSeq([i \in 1..Len(results) |-> results[i].tax]))
         IN  [status |-> "ok",
              estimates |-> results,
              total_subtotal |-> sub,
              total_tax |-> tax,
              total_total |-> Add(sub, tax),
              est_days_low |-> SumInt([i \in 1..Len(results) |-> results[i].est_days_low]),
              est_days_high |-> SumInt([i \in 1..Len(results) |-> results[i].est_days_high])]

\* POST /estimate, lines 236-247; an exception in any line fails the request
BatchOut(results) ==
    IF \E i \in 1..Len(results) : ~Ok(results[i]) THEN Raise("InternalServerError")
    ELSE [status |-> "ok",
          estimates |-> results,
          total_subtotal |-> round2(SumSeq([i \in 1..Len(results) |-> results[i].subtotal])),
          total_tax |-> round2(SumSeq([i \in 1..Len(results) |-> results[i].tax])),
          total_total |-> round2(SumSeq([i \in 1..Len(results) |-> results[i].total])),
          est_days_low |-> SumInt([i \in 1..Len(results) |-> results[i].est_days_low]),
          est_days_high |-> SumInt([i \in 1..Len(results) |-> results[i].est_days_high])]

estimate(cfg, default_region, hst, items) ==
    BatchOut([i \in 1..Len(items) |-> compute_estimate(cfg, default_region, hst, items[i])])

\* POST /workorder/html, lines 256-304: the figures the page shows
WorkOrder(estimates) ==
    IF \E i \in 1..Len(estimates) : ~Ok(estimates[i]) THEN Raise("InternalServerError")
    ELSE [status |-> "ok",
          rows |-> [i \in 1..Len(estimates) |->
                       [job_type |-> estimates[i].job_type,
                        region |-> estimates[i].region,
                        subtotal |-> estimates[i].subtotal,
                        days |-> <<estimates[i].est_days_low, estimates[i].est_days_high>>]],
          total_sub |-> round2(SumSeq([i \in 1..Len(estimates) |-> estimates[i].subtotal])),
          total_tax |-> round2(SumSeq([i \in 1..Len(estimates) |-> estimates[i].tax])),
          total_total |-> round2(SumSeq([i \in 1..Len(estimates) |-> estimates[i].total])),
          d_low |-> SumInt([i \in 1..Len(estimates) |-> estimates[i].est_days_low]),
          d_high |-> SumInt([i \in 1..Len(estimates) |-> estimates[i].est_days_high])]

workorder_html(cfg, default_region, hst, items) ==
    WorkOrder([i \in 1..Len(items) |-> compute_estimate(cfg, default_region, hst, items[i])])

\* ------------------------------------------------------------ requests
EstimateIn(job_type, inputs, region, include_tax, mods) ==
    [job_type |-> job_type, inputs |-> inputs, region |-> region,
     include_tax |-> include_tax, complexity_modifiers |-> mods]

NoInputs == <<>>
ZeroInputs == ("per_sqft" :> Q(0) @@ "per_unit" :> Q(0) @@ "per_fixture" :> Q(0))
SiteInputs == ("per_sqft" :> Q(450) @@ "per_unit" :> Q(4) @@ "per_fixture" :> Q(2)
               @@ "per_point" :> Q(3))
LargeInputs == ("per_sqft" :> Q(750) @@ "per_unit" :> Q(500) @@ "per_fixture" :> Q(1))
OddInputs == ("per_sqft" :> Dec2(150) @@ "per_unit" :> Q(900))

InputSets == {NoInputs, ZeroInputs, SiteInputs, LargeInputs, OddInputs}
Regions == {"", "York", "Mars"}
\* the entries a complexity_modifiers dict is made of: <<name, value>>
ModEntries ==
    {<<"access", Dec2(110)>>, <<"access", NonNumeric>>,
     <<"rush", Dec2(125)>>, <<"rush", NonNumeric>>,
     <<"height", Dec2(110)>>, <<"height", Dec2(125)>>}

\* dicts of at most k complexity modifiers, in every insertion order
RECURSIVE ModDicts(_)
ModDicts(k) ==
    IF k = 0 THEN {<<>>}
    ELSE LET P == ModDicts(k - 1)
         IN  P \cup {Append(p, e) : p \in {q \in P : Len(q) = k - 1}, e \in ModEntries}

DistinctKeys(d) == \A i, j \in 1..Len(d) : d[i][1] = d[j][1] => i = j

Modifiers == {d \in ModDicts(MaxMods) : DistinctKeys(d)}

\* one trade per request, every job type
TradeBodies == {<<EstimateIn(jt, SiteInputs, "", TRUE, <<>>)>> : jt \in JobTypes}

\* one trade per request, every pricing input
PricedJobs == {S_paint \o S_ing, S_kitchen}
PricingBodies ==
    {<<EstimateIn(jt, i, r, t, m)>> :
        jt \in PricedJobs, i \in InputSets, r \in Regions, t \in BOOLEAN, m \in Modifiers}

\* multi-trade requests
BatchLines ==
    {EstimateIn(S_paint \o S_ing, OddInputs, "York", TRUE, <<>>),
     EstimateIn(S_paint \o S_ing, SiteInputs, "", TRUE, << <<"rush", Dec2(125)>> >>),
     EstimateIn(S_kitchen, LargeInputs, "York", FALSE, <<>>),
     EstimateIn(S_tile \o S_ing, OddInputs, "York", TRUE, << <<"access", Dec2(110)>> >>),
     EstimateIn(S_default, SiteInputs, "", TRUE, <<>>),
     EstimateIn(S_plumb \o S_ing, LargeInputs, "Mars", TRUE, <<>>)}

RECURSIVE Batches(_)
Batches(k) ==
    IF k = 0 THEN {<<>>}
    ELSE LET P == Batches(k - 1) IN P \cup {Append(p, l) : p \in P, l \in BatchLines}

BatchBodies == {b \in Batches(MaxLines) : Len(b) >= 2}

Bodies == TradeBodies \cup PricingBodies \cup BatchBodies

NoBody == <<>>
NoResponse == [status |-> "none"]

\* ------------------------------------------------------------ serving estimates
\* the locals of one run of compute_estimate (lines 139-157)
Locals(cfg, default_region, line) ==
    LET base == ResolveBase(cfg, line.job_type)
        key == IF base.kind = "dict" THEN choose_cost_key(base) ELSE ""
    IN  [base |-> base,
         key |-> key,
         qty |-> Quantity(line.inputs, key),
         region_mult |-> get_region_multiplier(cfg, default_region, line.region)]

Catalogs == {Fallback} \cup Releases

Idle == [pc |-> "idle"]
Threads == 1..NThreads
NoCall == [pc |-> "idle", now |-> 0, ok |-> "none"]

\* the parts of the state a specification does not use
FileAtRest ==
    /\ prices_file = Missing
    /\ baseline = Missing
    /\ refresh_runs = 0
    /\ run = Idle

LimiterAtRest ==
    /\ clock = 0
    /\ calls = [t \in Threads |-> NoCall]
    /\ last_req_times = <<>>
    /\ admitted = [t \in 0..MaxClock |-> 0]

ServerAtRest ==
    /\ body = NoBody
    /\ est_locals = <<>>
    /\ est_out = NoResponse
    /\ wo_out = NoResponse

\* the module after import, and after any number of /refresh calls: PRICE_CFG
\* is the last load, DEFAULT_REGION and HST_RATE are those of the first.
\* (a start from the fallback leaves the same two values as a start from FileA).
\* RATE_LIMIT_RPS and API_KEYS have their defaults: limiter and auth are off.
InitEst ==
    /\ PRICE_CFG \in Catalogs
    /\ startup_cfg \in Releases
    /\ DEFAULT_REGION = startup_cfg.default_region
    /\ HST_RATE = startup_cfg.hst_rate
    /\ load_failed = (PRICE_CFG = Fallback)
    /\ RATE_LIMIT_RPS = Q(0)
    /\ ServerAtRest
    /\ FileAtRest
    /\ LimiterAtRest

Receive ==
    /\ body = NoBody
    /\ \E b \in Bodies : body' = b
    /\ est_locals' = <<>>
    /\ est_out' = NoResponse
    /\ wo_out' = NoResponse
    /\ UNCHANGED <<globals, file_group, load_group, run, rate_group>>

\* rate_limit_ok, line 60: returns True at once when the limiter is off
LimiterOff == ~Less(Q(0), RATE_LIMIT_RPS)

Estimate ==
    /\ body # NoBody
    /\ est_out = NoResponse
    /\ LimiterOff
    /\ est_locals' = [i \in 1..Len(body) |-> Locals(PRICE_CFG, DEFAULT_REGION, body[i])]
    /\ est_out' = estimate(PRICE_CFG, DEFAULT_REGION, HST_RATE, body)
    /\ UNCHANGED <<globals, body, wo_out, file_group, load_group, run, rate_group>>

WorkorderHtml ==
    /\ body # NoBody
    /\ wo_out = NoResponse
    /\ LimiterOff
    /\ wo_out' = workorder_html(PRICE_CFG, DEFAULT_REGION, HST_RATE, body)
    /\ UNCHANGED <<globals, body, est_locals, est_out, file_group, load_group, run, rate_group>>

NextEst == Receive \/ Estimate \/ WorkorderHtml

SpecEst == InitEst /\ [][NextEst]_vars

\* ------------------------------------------------------------ claims on estimates
Responded == est_out.status # "none"

Lines == 1..Len(est_locals)

\* the input the cost key selects, as the request gives it
InputQty(i) ==
    IF est_locals[i].key \in DOMAIN body[i].inputs
    THEN body[i].inputs[est_locals[i].key] ELSE Q(0)

\* C2: rate resolution is total: for every job type and every catalog
\* load_prices can return, compute_estimate resolves a RateSchema (a mapping
\* with a unit-price key and materials_pct) and returns an Estimate.
C2_RateResolutionTotal ==
    Responded =>
        /\ Ok(est_out)
        /\ \A i \in Lines :
              /\ est_locals[i].base.kind = "dict"
              /\ "materials_pct" \in Keys(est_locals[i].base.items)
              /\ est_locals[i].key \in Keys(est_locals[i].base.items)

\* the heuristics of the rate resolver, in priority order
Heuristics ==
    << <<S_plumb, Schema("per_fixture", Q(275), Dec2(40))>>,
       <<S_elect, Schema("per_point", Q(195), Dec2(35))>>,
       <<S_paint, Schema("per_sqft", Dec2(350), Dec2(20))>>,
       <<S_tile, Schema("per_sqft", Q(10), Dec2(40))>>,
       <<S_drywall, Schema("per_sqft", Q(6), Dec2(30))>>,
       <<S_carp, Schema("per_sqft", Q(8), Dec2(30))>>,
       <<S_handyman, Schema("per_point", Q(95), Dec2(20))>> >>

ExpectedBase(cfg, job_type) ==
    IF job_type \in DOMAIN cfg.base_rates THEN cfg.base_rates[job_type]
    ELSE LET hits == {k \in 1..Len(Heuristics) : Contains(Lower(job_type), Heuristics[k][1])}
         IN  IF hits = {} THEN Schema("per_sqft", Q(10), Dec2(35))
             ELSE Heuristics[CHOOSE k \in hits : \A h \in hits : k <= h][2]

\* C5: an exact key of base_rates gives that schema; otherwise the first of
\* plumb, elect, paint, tile, drywall, carp, handyman contained in the
\* lower-cased job type decides; otherwise {per_sqft: 10.0, materials_pct: 0.35}.
C5_ResolutionOrder ==
    \A i \in Lines : est_locals[i].base = ExpectedBase(PRICE_CFG, body[i].job_type)

\* "carpaint" holds both carp and paint, is no catalog key, and is priced as paint
C5_Witness ==
    /\ Lines # {}
    /\ body[1].job_type = S_car \o S_paint
    /\ est_locals[1].base = Schema("per_sqft", Dec2(350), Dec2(20))

\* C6: a request whose priced quantity is 0 (the cost-key input absent or 0)
\* has labor = materials = subtotal = tax = total = 0, whatever the region
\* multiplier, the complexity modifiers and include_tax.
C6_ZeroAbsorbing ==
    Ok(est_out) =>
        \A i \in Lines :
            InputQty(i) = Q(0) =>
                /\ est_out.estimates[i].labor = Q(0)
                /\ est_out.estimates[i].materials = Q(0)
                /\ est_out.estimates[i].subtotal = Q(0)
                /\ est_out.estimates[i].tax = Q(0)
                /\ est_out.estimates[i].total = Q(0)

\* an absent cost key under a region multiplier of 1.125, two numeric
\* modifiers and tax
C6_Witness ==
    /\ Ok(est_out)
    /\ est_locals[1].key \notin DOMAIN body[1].inputs
    /\ est_locals[1].region_mult = Dec3(1125)
    /\ body[1].include_tax
    /\ Len(est_out.estimates[1].modifiers) = 3

RECURSIVE Product(_)
Product(s) == IF s = <<>> THEN Q(1) ELSE Mul(s[1], Product(Tail(s)))

NumericMods(mods) == SelectSeq(mods, LAMBDA m : IsNumeric(m[2]))

\* C7: subtotal = (labor + materials) x regionMultiplier x f1 x ... x fn on
\* unrounded values; the modifier list is the region entry followed by one
\* entry per numeric complexity modifier in input order; a non-numeric factor
\* gives neither a multiplication nor an entry.
C7_ModifierPipeline ==
    Ok(est_out) =>
        \A i \in Lines :
            LET L == est_locals[i]
                pct == Get(L.base.items, "materials_pct")
                cost == Mul(InputQty(i), Get(L.base.items, L.key))
                labor == Mul(cost, Sub(Q(1), pct))
                materials == Mul(cost, pct)
                fs == NumericMods(body[i].complexity_modifiers)
                e == est_out.estimates[i]
            IN  /\ e.subtotal = round2(Product(<<Add(labor, materials), L.region_mult>>
                                               \o [k \in 1..Len(fs) |-> fs[k][2]]))
                /\ Len(e.modifiers) = Len(fs) + 1
                /\ e.modifiers[1] = Modifier("region_multiplier", round2(L.region_mult))
                /\ \A k \in 1..Len(fs) :
                      e.modifiers[k + 1] = Modifier(fs[k][1], round2(fs[k][2]))

\* two numeric modifiers on a non-zero cost, and a request with a skipped one
C7_Witness ==
    /\ Ok(est_out)
    /\ Len(body[1].complexity_modifiers) = 2
    /\ Len(est_out.estimates[1].modifiers) = 3
    /\ est_out.estimates[1].modifiers[2].factor # est_out.estimates[1].modifiers[3].factor
    /\ est_out.estimates[1].subtotal # Q(0)
    /\ est_locals[1].region_mult # Q(1)

C7_WitnessSkipped ==
    /\ Ok(est_out)
    /\ Len(body[1].complexity_modifiers) = 2
    /\ Len(est_out.estimates[1].modifiers) = 2

RECURSIVE Total(_, _)
Total(amounts, S) ==
    IF S = {} THEN Q(0)
    ELSE LET i == CHOOSE x \in S : TRUE IN Add(amounts[i], Total(amounts, S \ {i}))

Orderings(n) == {p \in [1..n -> 1..n] : \A i, j \in 1..n : p[i] = p[j] => i = j}

\* C8: the batch totals are the sums of the per-line 2-decimal subtotal, tax
\* and total, re-rounded to 2 decimals, and are the same for every
\* permutation of the lines.
C8_BatchTotals ==
    Ok(est_out) =>
        LET es == est_out.estimates
            n == Len(es)
        IN  /\ est_out.total_subtotal = round2(Total([i \in 1..n |-> es[i].subtotal], 1..n))
            /\ est_out.total_tax = round2(Total([i \in 1..n |-> es[i].tax], 1..n))
            /\ est_out.total_total = round2(Total([i \in 1..n |-> es[i].total], 1..n))
            /\ \A p \in Orderings(n) :
                  LET o == estimate(PRICE_CFG, DEFAULT_REGION, HST_RATE,
                                    [i \in 1..n |-> body[p[i]]])
                  IN  /\ Ok(o)
                      /\ o.total_subtotal = est_out.total_subtotal
                      /\ o.total_tax = est_out.total_tax
                      /\ o.total_total = est_out.total_total

\* a batch of two different lines with sub-cent amounts
C8_Witness ==
    /\ Ok(est_out)
    /\ Len(body) >= 2
    /\ body[1] # body[2]
    /\ est_out.estimates[1].tax # Q(0)
    /\ est_out.total_total # Q(0)

ExpectedDays(qty) ==
    IF qty.n > 0 /\ Less(Q(300), qty)
    THEN <<RoundHalfEven(qty.n, 300 * qty.d), RoundHalfEven(3 * qty.n, 600 * qty.d)>>
    ELSE <<1, 2>>

RECURSIVE Count(_, _)
Count(days, S) ==
    IF S = {} THEN 0
    ELSE LET i == CHOOSE x \in S : TRUE IN days[i] + Count(days, S \ {i})

\* C9: simple-sum policy: the batch range is the sum of the lines' ranges,
\* each line having est_days_low = round(baseDays) and est_days_high =
\* round(baseDays x 1.5), baseDays = max(1, quantity / 300) for quantity > 0
\* and 1 otherwise; /estimate and the HTML work order report the same range.
C9_DurationRange ==
    /\ Ok(est_out) =>
          LET n == Len(body)
          IN  /\ \A i \in 1..n :
                    <<est_out.estimates[i].est_days_low, est_out.estimates[i].est_days_high>>
                        = ExpectedDays(InputQty(i))
              /\ est_out.est_days_low = Count([i \in 1..n |-> ExpectedDays(InputQty(i))[1]], 1..n)
              /\ est_out.est_days_high = Count([i \in 1..n |-> ExpectedDays(InputQty(i))[2]], 1..n)
    /\ (Responded /\ wo_out.status # "none") =>
          /\ Ok(wo_out) = Ok(est_out)
          /\ Ok(wo_out) => /\ wo_out.d_low = est_out.est_days_low
                           /\ wo_out.d_high = est_out.est_days_high

\* both endpoints answered a two-line batch with a line of more than 300 units
C9_Witness ==
    /\ Ok(est_out)
    /\ Ok(wo_out)
    /\ Len(body) >= 2
    /\ est_out.estimates[1].est_days_low >= 2
    /\ est_out.estimates[2].est_days_high = 2
    /\ wo_out.d_high = est_out.est_days_high

\* ------------------------------------------------------------ the price file
Today == "today"

\* auto_refresh.py lines 9-12 on one entry of base_rates
ScaleEntry(v) ==
    Dict([i \in 1..Len(v.items) |->
            <<v.items[i][1], PyRound2(Mul(v.items[i][2], Dec3(1015)))>>])

\* the data refresh_prices dumps back; iterating an entry that is no dict
\* raises before anything is written
Refreshed(data) ==
    IF \E k \in DOMAIN data.base_rates : data.base_rates[k].kind # "dict" THEN data
    ELSE [data EXCEPT !.last_refreshed = Today,
                      !.base_rates = [k \in DOMAIN data.base_rates |->
                                         ScaleEntry(data.base_rates[k])]]

Files == {Missing} \cup {Present(c) : c \in Releases}

\* the module after import (lines 51-53)
Init ==
    /\ prices_file \in Files
    /\ baseline = prices_file
    /\ refresh_runs = 0
    /\ PRICE_CFG = load_prices(prices_file)
    /\ startup_cfg = PRICE_CFG
    /\ load_failed = ~prices_file.exists
    /\ DEFAULT_REGION = PRICE_CFG.default_region
    /\ HST_RATE = PRICE_CFG.hst_rate
    /\ RATE_LIMIT_RPS = Q(0)
    /\ run = Idle
    /\ ServerAtRest
    /\ LimiterAtRest

\* the operator installs a release of prices.json, or the file is lost
WritePricesFile ==
    /\ \E f \in Files : f # prices_file /\ prices_file' = f
    /\ baseline' = prices_file'
    /\ refresh_runs' = 0
    /\ UNCHANGED <<globals, est_group, load_group, run, rate_group>>

\* auto_refresh.py; open() raises when the file is missing
refresh_prices ==
    /\ prices_file.exists
    /\ refresh_runs < MaxRefreshRuns
    /\ prices_file' = Present(Refreshed(prices_file.data))
    /\ refresh_runs' = refresh_runs + 1
    /\ UNCHANGED <<baseline, globals, est_group, load_group, run, rate_group>>

\* GET /refresh
refresh ==
    /\ PRICE_CFG' = load_prices(prices_file)
    /\ load_failed' = ~prices_file.exists
    /\ UNCHANGED <<DEFAULT_REGION, HST_RATE, RATE_LIMIT_RPS, startup_cfg,
                   est_group, file_group, run, rate_group>>

\* ------------------------------------------------------------ a run of compute_estimate
RunLines ==
    {EstimateIn(S_paint \o S_ing, SiteInputs, "", TRUE, <<>>),
     EstimateIn(S_kitchen, OddInputs, "York", TRUE, << <<"rush", Dec2(125)>> >>),
     EstimateIn(S_default, SiteInputs, "", FALSE, <<>>)}

\* lines 135-149: the first read of PRICE_CFG
ComputeResolve ==
    /\ run.pc \in {"idle", "done"}
    /\ \E l \in RunLines :
          run' = [pc |-> "resolved", line |-> l,
                  base |-> ResolveBase(PRICE_CFG, l.job_type),
                  cfg_base |-> PRICE_CFG]
    /\ UNCHANGED <<globals, est_group, file_group, load_group, rate_group>>

\* lines 151-165: the second read of PRICE_CFG, in get_region_multiplier;
\* lines 151-155 raise on a base that is no RateSchema
ComputeScale ==
    /\ run.pc = "resolved"
    /\ run' = IF Ok(EstimateFrom(run.line, run.base, Q(1), DEFAULT_REGION, HST_RATE))
              THEN [pc |-> "scaled", line |-> run.line, base |-> run.base,
                    cfg_base |-> run.cfg_base,
                    region_mult |-> get_region_multiplier(PRICE_CFG, DEFAULT_REGION,
                                                          run.line.region),
                    cfg_region |-> PRICE_CFG]
              ELSE [pc |-> "done", line |-> run.line, base |-> run.base,
                    cfg_base |-> run.cfg_base, cfg_region |-> run.cfg_base,
                    out |-> EstimateFrom(run.line, run.base, Q(1), DEFAULT_REGION, HST_RATE)]
    /\ UNCHANGED <<globals, est_group, file_group, load_group, rate_group>>

\* lines 167-186: HST_RATE and DEFAULT_REGION are read
ComputeReturn ==
    /\ run.pc = "scaled"
    /\ run' = [pc |-> "done", line |-> run.line, base |-> run.base,
               cfg_base |-> run.cfg_base, cfg_region |-> run.cfg_region,
               out |-> EstimateFrom(run.line, run.base, run.region_mult,
                                    DEFAULT_REGION, HST_RATE)]
    /\ UNCHANGED <<globals, est_group, file_group, load_group, rate_group>>

Next ==
    \/ WritePricesFile
    \/ refresh_prices
    \/ refresh
    \/ ComputeResolve
    \/ ComputeScale
    \/ ComputeReturn

Spec == Init /\ [][Next]_vars

\* ------------------------------------------------------------ claims on the catalog
\* C1: every run of compute_estimate uses base rates, region multipliers,
\* default region and HST rate of one and the same loaded catalog, whether a
\* reload happens before the run or between two of its reads.
C1_SingleSnapshot ==
    (run.pc = "done" /\ Ok(run.out)) =>
        \E c \in {startup_cfg, run.cfg_base, run.cfg_region} :
            /\ c.base_rates = run.cfg_base.base_rates
            /\ c.region_multipliers = run.cfg_region.region_multipliers
            /\ c.default_region = DEFAULT_REGION
            /\ c.hst_rate = HST_RATE

MaterialsPct(data, k) == Get(data.base_rates[k].items, "materials_pct")

\* C3: after any number of runs of refresh_prices every schema's
\* materials_pct still has the value it had before the first run (so it is
\* still a fraction in [0,1]); only unit prices and the date stamp changed.
C3_MaterialsPctKept ==
    (refresh_runs > 0) =>
        /\ DOMAIN prices_file.data.base_rates = DOMAIN baseline.data.base_rates
        /\ \A k \in DOMAIN baseline.data.base_rates :
              MaterialsPct(prices_file.data, k) = MaterialsPct(baseline.data, k)

\* C4: when loading fails, load_prices returns default region "Durham", HST
\* rate 0.13 and an empty rate table.
C4_SafeDefaultCatalog ==
    load_failed =>
        /\ PRICE_CFG.default_region = "Durham"
        /\ PRICE_CFG.hst_rate = Dec2(13)
        /\ DOMAIN PRICE_CFG.base_rates = {}

\* ------------------------------------------------------------ the rate limiter
\* window = 1.0 second, in ticks
Window == 2

Limits == {Q(0), Q(1), Dec2(150)}

InitRate ==
    /\ RATE_LIMIT_RPS \in Limits
    /\ PRICE_CFG = Fallback
    /\ startup_cfg = Fallback
    /\ load_failed = TRUE
    /\ DEFAULT_REGION = Fallback.default_region
    /\ HST_RATE = Fallback.hst_rate
    /\ ServerAtRest
    /\ FileAtRest
    /\ LimiterAtRest

Tick ==
    /\ clock < MaxClock
    /\ clock' = clock + 1
    /\ UNCHANGED <<calls, last_req_times, admitted,
                   globals, est_group, file_group, load_group, run>>

\* lines 60-61: the limiter is off
RateLimitOff(t) ==
    /\ calls[t].pc = "idle"
    /\ LimiterOff
    /\ calls' = [calls EXCEPT ![t] = [pc |-> "idle", now |-> 0, ok |-> "True"]]
    /\ UNCHANGED <<clock, last_req_times, admitted,
                   globals, est_group, file_group, load_group, run>>

\* line 62: now = time.time(), before the lock is taken
ReadClock(t) ==
    /\ calls[t].pc = "idle"
    /\ ~LimiterOff
    /\ calls' = [calls EXCEPT ![t] = [pc |-> "timed", now |-> clock, ok |-> "none"]]
    /\ UNCHANGED <<clock, last_req_times, admitted,
                   globals, est_group, file_group, load_group, run>>

\* lines 66-67: pop the head while it is older than the window
RECURSIVE DropOld(_, _)
DropOld(times, now) ==
    IF times # <<>> /\ (now - times[1]) > Window THEN DropOld(Tail(times), now) ELSE times

\* lines 64-71: the block under _times_lock
UnderLock(t) ==
    /\ calls[t].pc = "timed"
    /\ LET now == calls[t].now
           kept == DropOld(last_req_times, now)
       IN  IF ~Less(Q(Len(kept)), RATE_LIMIT_RPS)
           THEN /\ last_req_times' = kept
                /\ admitted' = admitted
                /\ calls' = [calls EXCEPT ![t] = [pc |-> "idle", now |-> now, ok |-> "False"]]
           ELSE /\ last_req_times' = Append(kept, now)
                /\ admitted' = [admitted EXCEPT ![now] = @ + 1]
                /\ calls' = [calls EXCEPT ![t] = [pc |-> "idle", now |-> now, ok |-> "True"]]
    /\ UNCHANGED <<clock, globals, est_group, file_group, load_group, run>>

NextRate ==
    \/ Tick
    \/ \E t \in Threads : RateLimitOff(t)
    \/ \E t \in Threads : ReadClock(t)
    \/ \E t \in Threads : UnderLock(t)

SpecRate == InitRate /\ [][NextRate]_vars

\* the least integer >= r
Ceiling(r) == -((-r.n) \div r.d)

RECURSIVE AdmittedIn(_, _)
AdmittedIn(from, to) ==
    IF from > to THEN 0
    ELSE (IF from <= MaxClock THEN admitted[from] ELSE 0) + AdmittedIn(from + 1, to)

\* C10: with RATE_LIMIT_RPS > 0, in every interleaving of concurrent calls the
\* admitted calls whose recorded timestamps lie within any one-second window
\* never number more than RATE_LIMIT_RPS rounded up.
C10_WindowLimit ==
    Less(Q(0), RATE_LIMIT_RPS) =>
        \A a \in 0..MaxClock : AdmittedIn(a, a + Window) <= Ceiling(RATE_LIMIT_RPS)

====
